---- MODULE Spec2Model ----
(***************************************************************************)
(* Model of src/main.py: the two CSV tools read_sales_csv and              *)
(* calculate_statistics, and the two-participant sequential workflow that  *)
(* main() builds around them.                                              *)
(*                                                                         *)
(* Representation.  A CSV cell is a sequence of one-character strings, so  *)
(* that float() and int() are real parsers.  Money is counted in mills     *)
(* (thousandths of a dollar); every Revenue cell of the input family is a  *)
(* multiple of 0.125, which binary floating point holds and adds exactly,  *)
(* so the mills arithmetic is the float arithmetic of the program.  A      *)
(* string rendered by the format ",.2f" is represented by the number of    *)
(* cents it shows.  A JSON object whose key order matters (a breakdown) is *)
(* a sequence of <<key, value>> pairs; an error message is a sequence of   *)
(* words.                                                                  *)
(***************************************************************************)
EXTENDS Integers, Sequences, FiniteSets, TLC

VARIABLES file, cursor, conversation, runs, toolCalls, lastRead, lastStats

vars == <<file, cursor, conversation, runs, toolCalls, lastRead, lastStats>>

(***************************************************************************)
(* Bounds of the input family.                                             *)
(***************************************************************************)
MaxRows == 3
MaxLong == 12

(***************************************************************************)
(* Python values.                                                          *)
(***************************************************************************)
\* None: the one cell value that is not a character sequence.
None == <<"None">>

Digits == {"0", "1", "2", "3", "4", "5", "6", "7", "8", "9"}

DigitVal(c) ==
    CASE c = "0" -> 0 [] c = "1" -> 1 [] c = "2" -> 2 [] c = "3" -> 3
      [] c = "4" -> 4 [] c = "5" -> 5 [] c = "6" -> 6 [] c = "7" -> 7
      [] c = "8" -> 8 [] c = "9" -> 9

Ok(v) == [ok |-> TRUE, val |-> v]
Raise(t, m) == [ok |-> FALSE, exc |-> [type |-> t, msg |-> m]]

\* The classes `except Exception` catches, among those the tools can raise.
ExceptionClasses ==
    {"FileNotFoundError", "KeyError", "IndexError", "ValueError", "TypeError",
     "ZeroDivisionError"}

RECURSIVE DigitsVal(_)
DigitsVal(s) ==
    IF s = <<>> THEN 0
    ELSE 10 * DigitsVal(SubSeq(s, 1, Len(s) - 1)) + DigitVal(s[Len(s)])

AllDigits(s) == \A i \in 1..Len(s) : s[i] \in Digits

\* The sign of a numeric literal and the text after it.
Signed(s) == Len(s) > 0 /\ s[1] \in {"-", "+"}
Unsigned(s) == IF Signed(s) THEN Tail(s) ELSE s
SignOf(s) == IF Signed(s) /\ s[1] = "-" THEN -1 ELSE 1

\* int(cell) of line 81: an optional sign and decimal digits, nothing else.
ParseInt(cell) ==
    IF cell = None
    THEN Raise("TypeError", <<"int()", "argument", "must", "be", "a", "string,",
                              "not", "'NoneType'">>)
    ELSE LET body == Unsigned(cell) IN
         IF Len(body) > 0 /\ AllDigits(body)
         THEN Ok(SignOf(cell) * DigitsVal(body))
         ELSE Raise("ValueError", <<"invalid", "literal", "for", "int()", "with",
                                    "base", "10">>)

\* The fraction digits of a literal, in mills (three places).
FracMills(f) ==
    LET p == SubSeq(f, 1, IF Len(f) < 3 THEN Len(f) ELSE 3) IN
    CASE Len(p) = 0 -> 0
      [] Len(p) = 1 -> 100 * DigitsVal(p)
      [] Len(p) = 2 -> 10 * DigitsVal(p)
      [] OTHER -> DigitsVal(p)

\* float(cell) of lines 80, 87, 94, 101, in mills: an optional sign, digits,
\* at most one point, at least one digit.
ParseFloat(cell) ==
    IF cell = None
    THEN Raise("TypeError", <<"float()", "argument", "must", "be", "a", "string",
                              "or", "a", "real", "number,", "not", "'NoneType'">>)
    ELSE LET body == Unsigned(cell)
             dots == {i \in 1..Len(body) : body[i] = "."}
             dot  == IF dots = {} THEN Len(body) + 1 ELSE CHOOSE i \in dots : TRUE
             ip   == SubSeq(body, 1, dot - 1)
             fp   == SubSeq(body, dot + 1, Len(body))
         IN  IF /\ Cardinality(dots) <= 1
                /\ AllDigits(ip) /\ AllDigits(fp)
                /\ Len(ip) + Len(fp) > 0
             THEN Ok(SignOf(cell) * (1000 * DigitsVal(ip) + FracMills(fp)))
             ELSE Raise("ValueError", <<"could", "not", "convert", "string", "to",
                                        "float">>)

\* round(a / b) to the nearest integer, ties to even (b > 0): the rounding of
\* the format ",.2f" on a value the float holds exactly.
RoundHalfEven(a, b) ==
    LET q == a \div b
        r == a % b
    IN  IF 2 * r < b THEN q
        ELSE IF 2 * r > b THEN q + 1
        ELSE IF q % 2 = 0 THEN q ELSE q + 1

\* f"${x:,.2f}" for x = num/den mills: the cents the string shows.
FormatMoney(num, den) == RoundHalfEven(num, 10 * den)

(***************************************************************************)
(* The input family: the CSV files the tools are run on.  A file is its    *)
(* header line and its data lines, each a sequence of cells.  Row i of a   *)
(* file carries i in its Date cell.                                        *)
(***************************************************************************)
East == <<"E", "a", "s", "t">>
West == <<"W", "e", "s", "t">>
ProductA == <<"A">>
ProductB == <<"B">>
Bob == <<"B", "o", "b">>
Amy == <<"A", "m", "y">>

StdHeader == <<"Date", "Region", "Product", "Salesperson", "Revenue", "Units_Sold">>
RevenueFirstHeader ==
    <<"Revenue", "Units_Sold", "Region", "Product", "Salesperson", "Date">>
NoRevenueHeader == <<"Region", "Product", "Salesperson", "Units_Sold">>

Headers == {StdHeader, RevenueFirstHeader, NoRevenueHeader}

Sale(region, product, person, revenue, units, keep) ==
    [Region |-> region, Product |-> product, Salesperson |-> person,
     Revenue |-> revenue, Units_Sold |-> units, keep |-> keep]

\* Well-formed sales: every cell present, Revenue numeric, Units_Sold an integer.
GoodSales ==
    { Sale(East, ProductA, Bob, <<"1", "0", "0">>, <<"5">>, Len(StdHeader)),
      Sale(West, ProductB, Amy, <<"5", "0">>, <<"2">>, Len(StdHeader)),
      Sale(West, ProductA, Amy, <<"1", "0", "0">>, <<"3">>, Len(StdHeader)),
      Sale(West, ProductB, Bob, <<"0", ".", "1", "2", "5">>, <<"1">>, Len(StdHeader)) }

\* A non-numeric Revenue, a non-integer Units_Sold, and a line cut after its
\* second cell.
BadSales ==
    { Sale(East, ProductA, Amy, <<"a", "b", "c">>, <<"1">>, Len(StdHeader)),
      Sale(East, ProductB, Bob, <<"1", "0">>, <<"2", ".", "5">>, Len(StdHeader)),
      Sale(East, ProductA, Bob, <<"5", "0">>, <<"2">>, 2) }

SaleChoices == GoodSales \cup BadSales

DigitChar == <<"0", "1", "2", "3", "4", "5", "6", "7", "8", "9">>
DateCell(i) == <<DigitChar[(i \div 10) + 1], DigitChar[(i % 10) + 1]>>

Min(a, b) == IF a < b THEN a ELSE b

CsvLine(header, sale, i) ==
    [j \in 1..Min(sale.keep, Len(header)) |->
        IF header[j] = "Date" THEN DateCell(i) ELSE sale[header[j]]]

CsvFile(header, sales) ==
    [header |-> header,
     lines  |-> [i \in 1..Len(sales) |-> CsvLine(header, sales[i], i)]]

\* The sales of the long files: the well-formed sales, in rotation.
LongPattern ==
    << Sale(East, ProductA, Bob, <<"1", "0", "0">>, <<"5">>, Len(StdHeader)),
       Sale(West, ProductB, Amy, <<"5", "0">>, <<"2">>, Len(StdHeader)),
       Sale(West, ProductB, Bob, <<"0", ".", "1", "2", "5">>, <<"1">>, Len(StdHeader)) >>

LongSales(n) == [i \in 1..n |-> LongPattern[(i % Len(LongPattern)) + 1]]

\* A file of no bytes at all.
EmptyFile == [header |-> <<>>, lines |-> <<>>]

ShortFiles ==
    { CsvFile(h, s) : h \in Headers,
                      s \in UNION { [1..n -> SaleChoices] : n \in 0..MaxRows } }

LongFiles == { CsvFile(StdHeader, LongSales(n)) : n \in 0..MaxLong }

Files == ShortFiles \cup LongFiles \cup {EmptyFile}

\* The path of the prompt (line 218), and a path that names no file.
GoodPath == "sample_sales_data.csv"
Paths == {GoodPath, "missing.csv"}

(***************************************************************************)
(* Reading the file: open() and csv.DictReader (lines 37-39, 75-77).       *)
(***************************************************************************)
Open(path) ==
    IF path = GoodPath
    THEN Ok(file)
    ELSE Raise("FileNotFoundError", <<"[Errno", "2]", "No", "such", "file", "or",
                                      "directory">>)

Range(s) == {s[i] : i \in 1..Len(s)}

IndexOf(s, x) == CHOOSE i \in 1..Len(s) : s[i] = x

\* One row of DictReader: a mapping from the header's names to the line's
\* cells, None (restval) where the line is too short.
RowDict(header, line) ==
    [k \in Range(header) |->
        IF IndexOf(header, k) <= Len(line) THEN line[IndexOf(header, k)] ELSE None]

IsDataLine(line) == line # <<>>

\* list(csv.DictReader(f)): the rows in file order, blank lines skipped.
DictReader(f) ==
    LET data == SelectSeq(f.lines, IsDataLine) IN
    [i \in 1..Len(data) |-> RowDict(f.header, data[i])]

\* row[key]
GetItem(row, key) ==
    IF key \in DOMAIN row THEN Ok(row[key]) ELSE Raise("KeyError", <<key>>)

\* row.get(key, default)
DictGet(row, key, default) == IF key \in DOMAIN row THEN row[key] ELSE default

(***************************************************************************)
(* read_sales_csv (lines 27-62).                                           *)
(***************************************************************************)
SampleSize == 5
SampleThreshold == 10

Max(a, b) == IF a > b THEN a ELSE b

\* rows[:n] and rows[-n:]
FirstN(rows, n) == SubSeq(rows, 1, Min(n, Len(rows)))
LastN(rows, n) == SubSeq(rows, Max(1, Len(rows) - n + 1), Len(rows))

\* The sample taken without looking at the number of rows.
SampleRowsUnconditional(rows) == FirstN(rows, SampleSize) \o LastN(rows, SampleSize)

\* Line 48: the first 5 and the last 5 rows of more than 10, else all of them.
SampleRows(rows) ==
    IF Len(rows) > SampleThreshold
    THEN FirstN(rows, SampleSize) \o LastN(rows, SampleSize)
    ELSE rows

NotAvailable == <<"N", "/", "A">>

\* The body without its test for no rows: rows[0] then fails.
ReadBodyUnchecked(path) ==
    LET f == Open(path) IN
    IF ~f.ok THEN f
    ELSE LET rows == DictReader(f.val) IN
         IF rows = <<>>
         THEN Raise("IndexError", <<"list", "index", "out", "of", "range">>)
         ELSE Ok([total_rows  |-> Len(rows),
                  columns     |-> f.val.header,
                  sample_data |-> SampleRows(rows),
                  date_range  |->
                      [first |-> DictGet(rows[1], "Date", NotAvailable),
                       last  |-> DictGet(rows[Len(rows)], "Date", NotAvailable)]])

\* The body of the try block, lines 37-60.
ReadBody(path) ==
    LET f == Open(path) IN
    IF ~f.ok THEN f
    ELSE LET rows == DictReader(f.val) IN
         IF rows = <<>>
         THEN Ok([error |-> <<"CSV", "file", "is", "empty">>])
         ELSE Ok([total_rows  |-> Len(rows),
                  columns     |-> f.val.header,
                  sample_data |-> SampleRows(rows),
                  date_range  |->
                      [first |-> DictGet(rows[1], "Date", NotAvailable),
                       last  |-> DictGet(rows[Len(rows)], "Date", NotAvailable)]])

\* A handler that catches the errors of open() alone.
ExceptOSError(prefix, r) ==
    IF r.ok THEN r.val
    ELSE IF r.exc.type = "FileNotFoundError"
         THEN [error |-> prefix \o r.exc.msg]
         ELSE [uncaught |-> r.exc]

\* `except Exception as e` of lines 61-62 and 123-124: the error value built
\* from a caught exception; an exception of another class leaves the function.
Except(prefix, r) ==
    IF r.ok THEN r.val
    ELSE IF r.exc.type \in ExceptionClasses
         THEN [error |-> prefix \o r.exc.msg]
         ELSE [uncaught |-> r.exc]

ReadSalesCsv(path) == Except(<<"Failed", "to", "read", "CSV:">>, ReadBody(path))

(***************************************************************************)
(* calculate_statistics (lines 65-124).                                    *)
(***************************************************************************)
Front(s) == SubSeq(s, 1, Len(s) - 1)
Last(s) == s[Len(s)]

\* A sum that leaves the last row out.
RECURSIVE SumRevenueAll(_)
SumRevenueAll(rows) ==
    IF rows = <<>> THEN Ok(0)
    ELSE LET s == SumRevenueAll(Front(rows)) IN
         IF ~s.ok THEN s
         ELSE LET cell == GetItem(Last(rows), "Revenue") IN
              IF ~cell.ok THEN cell
              ELSE LET v == ParseFloat(cell.val) IN
                   IF ~v.ok THEN v ELSE Ok(s.val + v.val)

SumRevenueDroppingLast(rows) ==
    LET all == SumRevenueAll(rows) IN
    IF ~all.ok \/ Len(rows) < 2 THEN all ELSE SumRevenueAll(Front(rows))

\* sum(float(row['Revenue']) for row in rows), line 80: the first row that
\* fails ends the sum with its exception.
RECURSIVE SumRevenue(_)
SumRevenue(rows) ==
    IF rows = <<>> THEN Ok(0)
    ELSE LET s == SumRevenue(Front(rows)) IN
         IF ~s.ok THEN s
         ELSE LET cell == GetItem(Last(rows), "Revenue") IN
              IF ~cell.ok THEN cell
              ELSE LET v == ParseFloat(cell.val) IN
                   IF ~v.ok THEN v ELSE Ok(s.val + v.val)

\* sum(int(row['Units_Sold']) for row in rows), line 81.
RECURSIVE SumUnits(_)
SumUnits(rows) ==
    IF rows = <<>> THEN Ok(0)
    ELSE LET s == SumUnits(Front(rows)) IN
         IF ~s.ok THEN s
         ELSE LET cell == GetItem(Last(rows), "Units_Sold") IN
              IF ~cell.ok THEN cell
              ELSE LET v == ParseInt(cell.val) IN
                   IF ~v.ok THEN v ELSE Ok(s.val + v.val)

\* d[k] = d.get(k, 0) + v on an insertion-ordered dict.
DictAdd(d, k, v) ==
    IF \E i \in 1..Len(d) : d[i][1] = k
    THEN LET i == CHOOSE j \in 1..Len(d) : d[j][1] = k IN
         [d EXCEPT ![i] = <<k, d[i][2] + v>>]
    ELSE Append(d, <<k, 0 + v>>)

\* The grouping loops of lines 84-88, 91-95, 98-102.
RECURSIVE GroupRevenue(_, _)
GroupRevenue(rows, column) ==
    IF rows = <<>> THEN Ok(<<>>)
    ELSE LET d == GroupRevenue(Front(rows), column) IN
         IF ~d.ok THEN d
         ELSE LET key == GetItem(Last(rows), column) IN
              IF ~key.ok THEN key
              ELSE LET cell == GetItem(Last(rows), "Revenue") IN
                   IF ~cell.ok THEN cell
                   ELSE LET v == ParseFloat(cell.val) IN
                        IF ~v.ok THEN v ELSE Ok(DictAdd(d.val, key.val, v.val))

\* max() with a default: an empty dict yields an entry instead of an exception.
MaxItemOrDefault(d) ==
    IF d = <<>>
    THEN Ok(<<None, 0>>)
    ELSE Ok(d[CHOOSE i \in 1..Len(d) :
                  /\ \A j \in 1..Len(d) : d[j][2] <= d[i][2]
                  /\ \A j \in 1..(i - 1) : d[j][2] < d[i][2]])

\* A maximum that keeps the last of the items of largest value.
MaxItemLast(d) ==
    IF d = <<>>
    THEN Raise("ValueError", <<"max()", "arg", "is", "an", "empty", "sequence">>)
    ELSE Ok(d[CHOOSE i \in 1..Len(d) :
                  /\ \A j \in 1..Len(d) : d[j][2] <= d[i][2]
                  /\ \A j \in (i + 1)..Len(d) : d[j][2] < d[i][2]])

\* max() without its key: the first item of the dict, whatever its value.
MaxItemFirst(d) ==
    IF d = <<>>
    THEN Raise("ValueError", <<"max()", "arg", "is", "an", "empty", "sequence">>)
    ELSE Ok(d[1])

\* max(d.items(), key=lambda x: x[1]), lines 105-107: the first item, in the
\* dict's order, that no item exceeds.
MaxItem(d) ==
    IF d = <<>>
    THEN Raise("ValueError", <<"max()", "arg", "is", "an", "empty", "sequence">>)
    ELSE Ok(d[CHOOSE i \in 1..Len(d) :
                  /\ \A j \in 1..Len(d) : d[j][2] <= d[i][2]
                  /\ \A j \in 1..(i - 1) : d[j][2] < d[i][2]])

\* s with x put in after its first n items.
InsertAt(s, n, x) == SubSeq(s, 1, n) \o <<x>> \o SubSeq(s, n + 1, Len(s))

\* A breakdown left in the dict's order.
NotSorted(d) == d

\* sorted(d.items(), key=lambda x: x[1], reverse=True), lines 117-119: a stable
\* sort, items of equal value keep the dict's order.
RECURSIVE SortedDescending(_)
SortedDescending(d) ==
    IF d = <<>> THEN <<>>
    ELSE LET rest == SortedDescending(Front(d))
             x    == Last(d)
             n    == Cardinality({i \in 1..Len(rest) : rest[i][2] >= x[2]})
         IN  InsertAt(rest, n, x)

\* {k: f"${v:,.2f}" for k, v in sorted(...)}
Breakdown(d) ==
    LET s == SortedDescending(d) IN
    [i \in 1..Len(s) |-> <<s[i][1], FormatMoney(s[i][2], 1)>>]

\* {"name": top[0], "revenue": f"${top[1]:,.2f}"}
TopEntry(top) == [name |-> top[1], revenue |-> FormatMoney(top[2], 1)]

\* f"${total_revenue/len(rows):,.2f}", line 112: the division, then the
\* rendering of the quotient (rounded from the exact quotient).
Average(total, n) ==
    IF n = 0
    THEN Raise("ZeroDivisionError", <<"float", "division", "by", "zero">>)
    ELSE Ok(FormatMoney(total, n))

\* Lines 105-120, once the three groupings are built.
BuildStats(rows, revenue, units, region, product, person) ==
    LET top_region == MaxItem(region) IN
    IF ~top_region.ok THEN top_region
    ELSE LET top_product == MaxItem(product) IN
    IF ~top_product.ok THEN top_product
    ELSE LET top_salesperson == MaxItem(person) IN
    IF ~top_salesperson.ok THEN top_salesperson
    ELSE LET average == Average(revenue, Len(rows)) IN
    IF ~average.ok THEN average
    ELSE Ok([total_revenue                   |-> FormatMoney(revenue, 1),
             total_units_sold                |-> units,
             average_revenue_per_transaction |-> average.val,
             number_of_transactions          |-> Len(rows),
             top_region                      |-> TopEntry(top_region.val),
             top_product                     |-> TopEntry(top_product.val),
             top_salesperson                 |-> TopEntry(top_salesperson.val),
             region_breakdown                |-> Breakdown(region),
             product_breakdown               |-> Breakdown(product),
             salesperson_breakdown           |-> Breakdown(person)])

\* The body of the try block, lines 75-122.
StatsBody(path) ==
    LET f == Open(path) IN
    IF ~f.ok THEN f
    ELSE LET rows == DictReader(f.val)
             total_revenue == SumRevenue(rows) IN
    IF ~total_revenue.ok THEN total_revenue
    ELSE LET total_units == SumUnits(rows) IN
    IF ~total_units.ok THEN total_units
    ELSE LET region_revenue == GroupRevenue(rows, "Region") IN
    IF ~region_revenue.ok THEN region_revenue
    ELSE LET product_revenue == GroupRevenue(rows, "Product") IN
    IF ~product_revenue.ok THEN product_revenue
    ELSE LET salesperson_revenue == GroupRevenue(rows, "Salesperson") IN
    IF ~salesperson_revenue.ok THEN salesperson_revenue
    ELSE BuildStats(rows, total_revenue.val, total_units.val, region_revenue.val,
                    product_revenue.val, salesperson_revenue.val)

CalculateStatistics(path) ==
    Except(<<"Failed", "to", "calculate", "statistics:">>, StatsBody(path))

(***************************************************************************)
(* The workflow of main() (lines 143-219): two agents, run as the          *)
(* participants of a sequential workflow, in the order of the list.        *)
(***************************************************************************)
\* tools= of each create_agent call (line 160; ReportWriter is given none).
AgentTools ==
    [DataAnalyzer |-> {"read_sales_csv", "calculate_statistics"},
     ReportWriter |-> {}]

\* The participants listed the other way round.
ParticipantsReversed == <<"ReportWriter", "DataAnalyzer">>

\* SequentialBuilder().participants([data_analyzer, report_writer]), line 214.
Participants == <<"DataAnalyzer", "ReportWriter">>

Agents == Range(Participants)

Finished == Len(Participants) + 1

\* The agent whose turn it is.
Active == Participants[cursor]

NotCalled == [path |-> "", out |-> [pending |-> TRUE]]

Init ==
    /\ file \in Files
    /\ cursor = 0
    /\ conversation = <<>>
    /\ runs = [a \in Agents |-> 0]
    /\ toolCalls = {}
    /\ lastRead = NotCalled
    /\ lastStats = NotCalled

\* agent.run(prompt), line 219: the prompt opens the conversation and the
\* first participant starts.
Run ==
    /\ cursor = 0
    /\ cursor' = 1
    /\ conversation' = <<"user">>
    /\ runs' = [runs EXCEPT ![Participants[1]] = @ + 1]
    /\ UNCHANGED <<file, toolCalls, lastRead, lastStats>>

\* The running agent calls read_sales_csv, if it was given that tool, on a
\* path of its choosing.
InvokeReadSalesCsv ==
    /\ cursor \in 1..Len(Participants)
    /\ "read_sales_csv" \in AgentTools[Active]
    /\ \E path \in Paths : lastRead' = [path |-> path, out |-> ReadSalesCsv(path)]
    /\ toolCalls' = toolCalls \cup {<<Active, "read_sales_csv">>}
    /\ UNCHANGED <<file, cursor, conversation, runs, lastStats>>

\* The running agent calls calculate_statistics, if it was given that tool.
InvokeCalculateStatistics ==
    /\ cursor \in 1..Len(Participants)
    /\ "calculate_statistics" \in AgentTools[Active]
    /\ \E path \in Paths :
           lastStats' = [path |-> path, out |-> CalculateStatistics(path)]
    /\ toolCalls' = toolCalls \cup {<<Active, "calculate_statistics">>}
    /\ UNCHANGED <<file, cursor, conversation, runs, lastRead>>

\* The running agent returns its response: it joins the conversation and the
\* next participant of the list, if any, starts.
Respond ==
    /\ cursor \in 1..Len(Participants)
    /\ conversation' = Append(conversation, Active)
    /\ cursor' = cursor + 1
    /\ runs' = IF cursor + 1 <= Len(Participants)
               THEN [runs EXCEPT ![Participants[cursor + 1]] = @ + 1]
               ELSE runs
    /\ UNCHANGED <<file, toolCalls, lastRead, lastStats>>

Next == Run \/ InvokeReadSalesCsv \/ InvokeCalculateStatistics \/ Respond

Spec == Init /\ [][Next]_vars

TypeOK ==
    /\ cursor \in 0..Finished
    /\ \A a \in Agents : runs[a] \in 0..1

(***************************************************************************)
(* Vocabulary of the properties: the rows of the file, the results of the  *)
(* last calls on it, and the sums of the rows computed from the rows alone.*)
(***************************************************************************)
Rows == DictReader(file)

ReadOut == lastRead.out
StatsOut == lastStats.out

\* The tool was last called on the file of the prompt.
ReadDone == lastRead.path = GoodPath
StatsDone == lastStats.path = GoodPath

ErrorKeys == {"error"}
ReadKeys == {"total_rows", "columns", "sample_data", "date_range"}
StatsKeys ==
    {"total_revenue", "total_units_sold", "average_revenue_per_transaction",
     "number_of_transactions", "top_region", "top_product", "top_salesperson",
     "region_breakdown", "product_breakdown", "salesperson_breakdown"}

IsError(out) == DOMAIN out = ErrorKeys
StatsSucceeded == StatsDone /\ DOMAIN StatsOut = StatsKeys

RequiredColumns == {"Revenue", "Units_Sold", "Region", "Product", "Salesperson"}

\* The row has a cell in the column.
HasCell(row, column) == column \in DOMAIN row /\ row[column] # None

NumericRow(row) ==
    /\ HasCell(row, "Revenue") /\ ParseFloat(row["Revenue"]).ok
    /\ HasCell(row, "Units_Sold") /\ ParseInt(row["Units_Sold"]).ok

WellFormedRow(row) ==
    /\ \A c \in RequiredColumns : HasCell(row, c)
    /\ NumericRow(row)

WellFormed == Rows # <<>> /\ \A i \in 1..Len(Rows) : WellFormedRow(Rows[i])

\* The Revenue of row i, in mills.
RevenueOf(i) == ParseFloat(Rows[i]["Revenue"]).val

\* The sum of the Revenue of the rows whose indices are in S, each once.
RECURSIVE RevenueOver(_)
RevenueOver(S) ==
    IF S = {} THEN 0
    ELSE LET i == CHOOSE j \in S : TRUE IN RevenueOf(i) + RevenueOver(S \ {i})

RowsOf(column, key) == {i \in 1..Len(Rows) : Rows[i][column] = key}
KeysOf(column) == {Rows[i][column] : i \in 1..Len(Rows)}
GroupSum(column, key) == RevenueOver(RowsOf(column, key))

\* The index of the first row that carries the key.
FirstSeen(column, key) ==
    CHOOSE i \in RowsOf(column, key) : \A j \in RowsOf(column, key) : i <= j

\* The keys of the grouping with the largest sum.
MaxKeys(column) ==
    {k \in KeysOf(column) : \A o \in KeysOf(column) : GroupSum(column, o) <= GroupSum(column, k)}

Groupings ==
    { [column |-> "Region", top |-> "top_region", breakdown |-> "region_breakdown"],
      [column |-> "Product", top |-> "top_product", breakdown |-> "product_breakdown"],
      [column |-> "Salesperson", top |-> "top_salesperson",
       breakdown |-> "salesperson_breakdown"] }

(***************************************************************************)
(* Properties.                                                             *)
(***************************************************************************)
AllRows == 1..Len(Rows)

\* C1, as stated: on a well-formed file with at least one row, the reported
\* total_revenue equals the sum of the rows' Revenue, each row counted once.
TotalRevenueIsExactSum ==
    (StatsDone /\ WellFormed) =>
        (StatsSucceeded /\ 10 * StatsOut.total_revenue = RevenueOver(AllRows))

\* C1, amended: the reported total_revenue is the sum of the rows' Revenue,
\* each row counted once, rounded to the nearest cent; it is the sum itself
\* when the sum is a whole number of cents.
TotalRevenueIsRoundedSum ==
    (StatsDone /\ WellFormed) =>
        /\ StatsSucceeded
        /\ 10 * StatsOut.total_revenue - RevenueOver(AllRows) \in -5..5
        /\ RevenueOver(AllRows) % 10 = 0 =>
               10 * StatsOut.total_revenue = RevenueOver(AllRows)

\* A well-formed file of several rows whose sum is no whole number of cents
\* has been summed.
TotalRevenueRounded ==
    /\ StatsSucceeded /\ WellFormed
    /\ Len(Rows) >= 2
    /\ RevenueOver(AllRows) % 10 # 0

\* C2: on a well-formed file with at least one row, each reported top entry
\* names a key of its breakdown, and no key of the breakdown has a larger
\* summed revenue, as rendered or as summed.
TopHasMaximalRevenue ==
    (StatsDone /\ WellFormed) =>
        /\ StatsSucceeded
        /\ \A g \in Groupings :
             LET top == StatsOut[g.top]
                 b   == StatsOut[g.breakdown]
             IN  /\ \E i \in 1..Len(b) : b[i][1] = top.name /\ b[i][2] = top.revenue
                 /\ \A i \in 1..Len(b) : b[i][2] <= top.revenue
                 /\ top.name \in KeysOf(g.column)
                 /\ \A k \in KeysOf(g.column) :
                        GroupSum(g.column, k) <= GroupSum(g.column, top.name)

\* A well-formed file whose top region is not the region of its first row.
TopIsALaterKey ==
    /\ StatsSucceeded /\ WellFormed
    /\ Cardinality(KeysOf("Region")) >= 2
    /\ StatsOut.top_region.name # Rows[1]["Region"]

\* C3, as stated, on the well-formed files alone: in a successful result each
\* breakdown is sorted strictly descending: each entry's revenue exceeds the
\* next entry's.
BreakdownsStrictlyDescending ==
    (StatsSucceeded /\ WellFormed) =>
        \A g \in Groupings :
            LET b == StatsOut[g.breakdown] IN
            \A i \in 1..(Len(b) - 1) : b[i][2] > b[i + 1][2]

\* C3, amended: in every successful result each breakdown is sorted
\* descending: no entry's revenue, as rendered or as summed, is less than the
\* next entry's (entries of equal revenue follow one another).
BreakdownsDescending ==
    StatsSucceeded =>
        \A g \in Groupings :
            LET b == StatsOut[g.breakdown] IN
            \A i \in 1..(Len(b) - 1) :
                /\ b[i][2] >= b[i + 1][2]
                /\ GroupSum(g.column, b[i][1]) >= GroupSum(g.column, b[i + 1][1])

\* A successful result whose region breakdown does not open with the region
\* seen first: the sort has moved an entry.
BreakdownReordered ==
    /\ StatsSucceeded
    /\ Len(StatsOut.region_breakdown) >= 2
    /\ StatsOut.region_breakdown[1][1] # Rows[1]["Region"]

\* C4: whatever the path and the file, each tool returns either {error:
\* message} or its complete success payload; no exception leaves a tool.
ToolsReturnErrorOrPayload ==
    /\ lastRead.path # "" => (IsError(ReadOut) \/ DOMAIN ReadOut = ReadKeys)
    /\ lastStats.path # "" => (IsError(StatsOut) \/ DOMAIN StatsOut = StatsKeys)

\* On one file, read_sales_csv has returned its payload and
\* calculate_statistics an error made from an exception.
StatsFailedWhereReadSucceeded ==
    /\ ReadDone /\ DOMAIN ReadOut = ReadKeys
    /\ StatsDone /\ IsError(StatsOut)

\* C5: if any row lacks a required column or holds a non-numeric Revenue or
\* Units_Sold, calculate_statistics returns a structured error and nothing
\* else.
BadRowFailsWholeComputation ==
    (StatsDone /\ \E i \in AllRows : ~WellFormedRow(Rows[i])) => IsError(StatsOut)

\* The file has a header line and no data row.
HeaderOnly == file.header # <<>> /\ Rows = <<>>

\* C6: on a file with a header line and no data row, read_sales_csv returns a
\* structured error whose message holds the word "empty", and no dataset
\* field.
HeaderOnlyFileIsEmptyError ==
    (ReadDone /\ HeaderOnly) =>
        /\ DOMAIN ReadOut = ErrorKeys
        /\ "empty" \in Range(ReadOut.error)

\* read_sales_csv has been run on a header-only file.
HeaderOnlyFileRead == ReadDone /\ HeaderOnly

\* No two entries of the sequence are equal.
Distinct(s) == \A i, j \in 1..Len(s) : i # j => s[i] # s[j]

\* C7: for n >= 1 rows the preview is rows 1..5 followed by rows n-4..n when
\* n > 10, and all n rows when n <= 10; no row appears twice; total_rows = n.
PreviewIsFirstAndLastFive ==
    (ReadDone /\ Len(Rows) >= 1) =>
        LET n == Len(Rows)
            p == ReadOut.sample_data
        IN  /\ DOMAIN ReadOut = ReadKeys
            /\ ReadOut.total_rows = n
            /\ n > 10 => /\ Len(p) = 10
                         /\ \A i \in 1..5 : p[i] = Rows[i] /\ p[5 + i] = Rows[n - 5 + i]
            /\ n <= 10 => p = Rows
            /\ Distinct(Rows) => Distinct(p)

\* read_sales_csv has been run on twelve distinct rows: the preview jumps
\* from row 5 to row 8.
PreviewOfTwelveRows ==
    /\ ReadDone /\ Len(Rows) = 12 /\ Distinct(Rows)
    /\ ReadOut.sample_data[6] = Rows[8]

StatsPrefix == <<"Failed", "to", "calculate", "statistics:">>

TopIsFirstSeenMaximum ==
    StatsSucceeded =>
        \A g \in Groupings :
            Cardinality(MaxKeys(g.column)) >= 2 =>
                /\ StatsOut[g.top].name \in MaxKeys(g.column)
                /\ \A k \in MaxKeys(g.column) :
                       FirstSeen(g.column, StatsOut[g.top].name) <= FirstSeen(g.column, k)

\* A successful result on a file in which two regions share the largest sum.
TopRegionTied == StatsSucceeded /\ Cardinality(MaxKeys("Region")) >= 2

\* C10: DataAnalyzer runs, then ReportWriter, which starts only once
\* DataAnalyzer's response is in the conversation; each runs once; only
\* DataAnalyzer calls the tools.
WorkflowIsSequential ==
    /\ \A c \in toolCalls : c[1] = "DataAnalyzer"
    /\ \A a \in Agents : runs[a] <= 1
    /\ runs["ReportWriter"] >= 1 =>
           /\ runs["DataAnalyzer"] = 1
           /\ "DataAnalyzer" \in Range(conversation)
    /\ cursor = Finished =>
           /\ \A a \in Agents : runs[a] = 1
           /\ conversation = <<"user", "DataAnalyzer", "ReportWriter">>

\* The workflow has finished and both tools were called in it.
WorkflowFinishedWithToolCalls ==
    /\ cursor = Finished
    /\ Cardinality(toolCalls) = 2

====
